---- MODULE Spec2Model ----
(***************************************************************************)
(* A model of BackupTracker (vs/workbench/contrib/backup/common/           *)
(* backupTracker.ts): the per working copy debounced backup scheduler.     *)
(*                                                                         *)
(* The tracker owns two maps (content versions, pending backups).  Every   *)
(* scheduleBackup creates a job: a CancellationTokenSource plus a timer    *)
(* whose async callback suspends at workingCopy.backup() (capture) and at  *)
(* backupFileService.backup() (store).  A job lives in a slot of `jobs`    *)
(* from its creation until its callback has returned; a job whose timer    *)
(* was cleared before it fired stays in its slot until the slot is needed  *)
(* again.  A superseded job that is still suspended in capture or store    *)
(* stays alive next to its successor.                                      *)
(***************************************************************************)
EXTENDS Integers, Sequences, FiniteSets, TLC

\* The working copies of the registry; "untitled1" has the Untitled capability.
WorkingCopies == {"file1", "untitled1"}
UntitledCopies == {"untitled1"}

\* ShutdownReason
ShutdownReasons == {"CLOSE", "QUIT", "RELOAD", "LOAD"}

AutoSaveModes ==
  {"OFF", "ON_FOCUS_CHANGE", "ON_WINDOW_CHANGE", "AFTER_SHORT_DELAY", "AFTER_LONG_DELAY"}

\* The modes the auto save setting takes in a run: one for each delay.
ConfiguredModes == {"OFF", "AFTER_SHORT_DELAY"}

\* Bounds of the model.
MaxJobs == 2
MaxVersion == 2
TickMs == 1000

\* The jobs alive at one time are at most MaxJobs.
JobIds == 1..MaxJobs

\* No value: a job that has not captured or submitted yet.
None == 0 - 1

VARIABLES
  existing,       \* the working copies of this run
  registered,     \* the working copies the registry currently knows
  dirty,          \* workingCopy.isDirty()
  autoSaveMode,   \* filesConfigurationService.getAutoSaveMode()
  mapWorkingCopyToContentVersion,
  pendingBackups, \* working copy -> slot in jobs of its disposable
  jobs,           \* slot -> job
  calls,          \* the backupFileService calls made by the last step
  lastBackup,     \* how the last backup of the working copy's current version ended
  sinceChange,    \* ms since the last content change event of the working copy
  burst,          \* the run of content changes the working copy is in
  basic,          \* the backups submitted since the working copy was registered dirty
  veto            \* the veto the last step forwarded to the shutdown event

vars == <<existing, registered, dirty, autoSaveMode, mapWorkingCopyToContentVersion,
          pendingBackups, jobs, calls, lastBackup, sinceChange, burst, basic, veto>>

Min(a, b) == IF a < b THEN a ELSE b
Max(a, b) == IF a > b THEN a ELSE b

\* new Map()
EmptyMap == [x \in {} |-> 0]
\* Map.delete(key)
MapDelete(m, k) == [x \in DOMAIN m \ {k} |-> m[x]]
\* Map.set(key, value)
MapSet(m, k, v) == [x \in DOMAIN m \cup {k} |-> IF x = k THEN v ELSE m[x]]

----------------------------------------------------------------------------
(* The delay policy *)

BACKUP_SCHEDULE_DELAYS(mode) ==
  CASE mode = "OFF" -> 1000
    [] mode = "ON_FOCUS_CHANGE" -> 1000
    [] mode = "ON_WINDOW_CHANGE" -> 1000
    [] mode = "AFTER_SHORT_DELAY" -> 2000
    [] mode = "AFTER_LONG_DELAY" -> 1000

\* Mutant: the Untitled capability is not looked at.
getBackupScheduleDelayOfMode(workingCopy, mode) == BACKUP_SCHEDULE_DELAYS(mode)

getBackupScheduleDelay(workingCopy, mode) ==
  LET m == IF workingCopy \in UntitledCopies THEN "OFF" ELSE mode
  IN  BACKUP_SCHEDULE_DELAYS(m)

\* The longest delay a timer is ever armed with.
MaxDelay == BACKUP_SCHEDULE_DELAYS("AFTER_SHORT_DELAY")

----------------------------------------------------------------------------
(* Jobs *)

\* An empty slot.
FreeJob ==
  [wc |-> "", pc |-> "free", remaining |-> 0,
   cancelled |-> FALSE, timerCleared |-> FALSE,
   cancelAt |-> "none", capVersion |-> None, subVersion |-> None, subSince |-> None,
   wentClean |-> FALSE]

\* new CancellationTokenSource() and setTimeout(callback, delay)
NewJob(workingCopy, delay) ==
  [FreeJob EXCEPT !.wc = workingCopy, !.pc = "timer", !.remaining = delay]

\* The timer of the job is set and was not cleared.
Armed(job) == job.pc = "timer" /\ ~job.timerCleared
\* The timer of the job was cleared before it fired: its callback never runs.
Cleared(job) == job.pc = "timer" /\ job.timerCleared
\* The callback of the job is suspended in workingCopy.backup() or backupFileService.backup().
InFlight(job) == job.pc \in {"capture", "store"}
\* The job can still act.
Alive(job) == Armed(job) \/ InFlight(job)

\* The slots a new job can take: the empty ones, else those of cleared timers.
SlotsFor(js) ==
  IF \E j \in JobIds : js[j].pc = "free"
    THEN {j \in JobIds : js[j].pc = "free"}
    ELSE {j \in JobIds : Cleared(js[j])}

\* The slot a new job takes: the first of them.
FirstSlot(slots) == CHOOSE j \in slots : \A i \in slots : j <= i

----------------------------------------------------------------------------
(* The tracker.  Its handlers are operators from a tracker state           *)
(*   [versions, pending, jobs, calls, ok]                                  *)
(* to the tracker state after the handler has returned; ok is FALSE when   *)
(* the handler needed more than MaxJobs jobs alive.                        *)

TrackerState ==
  [versions |-> mapWorkingCopyToContentVersion, pending |-> pendingBackups,
   jobs |-> jobs, calls |-> <<>>, ok |-> TRUE]

getContentVersion(st, workingCopy) ==
  IF workingCopy \in DOMAIN st.versions THEN st.versions[workingCopy] ELSE 0

\* Mutant: cts.dispose() without cancel; the timer is cleared, the token is not signaled.
disposeJobKeepToken(job) ==
  [job EXCEPT !.timerCleared = TRUE, !.remaining = 0]

\* The disposable of a job: cts.dispose(true); clearTimeout(handle).
disposeJob(job) ==
  [job EXCEPT !.cancelled = TRUE, !.timerCleared = TRUE, !.remaining = 0]

\* Mutant: the entry is deleted and its disposable is never disposed.
cancelBackupNoDispose(st, workingCopy) ==
  IF workingCopy \in DOMAIN st.pending
    THEN LET j == st.pending[workingCopy]
         IN  [st EXCEPT !.jobs[j].cancelAt = st.jobs[j].pc,
                        !.pending = MapDelete(@, workingCopy)]
    ELSE st

cancelBackup(st, workingCopy) ==
  IF workingCopy \in DOMAIN st.pending
    THEN LET j == st.pending[workingCopy]
             job == st.jobs[j]
         IN  [st EXCEPT !.jobs[j] = disposeJob([job EXCEPT !.cancelAt = job.pc]),
                        !.pending = MapDelete(@, workingCopy)]
    ELSE st

\* Mutant: the running backup operation is not cleared before the new one is scheduled.
scheduleBackupNoCancel(st, workingCopy, mode) ==
  LET slots == SlotsFor(st.jobs)
      job == NewJob(workingCopy, getBackupScheduleDelay(workingCopy, mode))
  IN  IF slots = {} THEN [st EXCEPT !.ok = FALSE]
      ELSE [st EXCEPT !.jobs[FirstSlot(slots)] = job,
                      !.pending = MapSet(@, workingCopy, FirstSlot(slots))]

scheduleBackup(st, workingCopy, mode) ==
  LET s1 == cancelBackup(st, workingCopy)
      slots == SlotsFor(s1.jobs)
      job == NewJob(workingCopy, getBackupScheduleDelay(workingCopy, mode))
  IN  IF slots = {} THEN [s1 EXCEPT !.ok = FALSE]
      ELSE [s1 EXCEPT !.jobs[FirstSlot(slots)] = job,
                      !.pending = MapSet(@, workingCopy, FirstSlot(slots))]

\* Mutant: the discard is forwarded and the running backup operation is not cleared.
discardBackupNoCancel(st, workingCopy) ==
  [st EXCEPT !.calls = Append(@, [op |-> "discardBackup", wc |-> workingCopy,
                                  version |-> None, job |-> 0])]

discardBackup(st, workingCopy) ==
  LET s1 == cancelBackup(st, workingCopy)
  IN  [s1 EXCEPT !.calls = Append(@, [op |-> "discardBackup", wc |-> workingCopy,
                                      version |-> None, job |-> 0])]

\* Mutant: a registered working copy is scheduled without a look at isDirty().
onDidRegisterAlways(st, workingCopy, isDirty, mode) ==
  scheduleBackup(st, workingCopy, mode)

onDidRegister(st, workingCopy, isDirty, mode) ==
  IF isDirty THEN scheduleBackup(st, workingCopy, mode) ELSE st

\* Mutant: the content version is not removed.
onDidUnregisterKeepVersion(st, workingCopy) ==
  discardBackup(st, workingCopy)

\* Mutant: the content version map is cleared.
onDidUnregisterClearVersions(st, workingCopy) ==
  discardBackup([st EXCEPT !.versions = EmptyMap], workingCopy)

onDidUnregister(st, workingCopy) ==
  discardBackup([st EXCEPT !.versions = MapDelete(@, workingCopy)], workingCopy)

\* Mutant: a working copy that became clean only has its pending backup cancelled.
onDidChangeDirtyNoDiscard(st, workingCopy, isDirty, mode) ==
  IF isDirty THEN scheduleBackup(st, workingCopy, mode)
             ELSE cancelBackup(st, workingCopy)

onDidChangeDirty(st, workingCopy, isDirty, mode) ==
  IF isDirty THEN scheduleBackup(st, workingCopy, mode)
             ELSE discardBackup(st, workingCopy)

\* Mutant: the content version is incremented and no backup is scheduled.
onDidChangeContentNoSchedule(st, workingCopy, isDirty, mode) ==
  [st EXCEPT !.versions = MapSet(@, workingCopy, getContentVersion(st, workingCopy) + 1)]

\* Mutant: the content version is incremented only when the working copy is dirty.
onDidChangeContentDirtyOnly(st, workingCopy, isDirty, mode) ==
  IF isDirty
    THEN scheduleBackup(
           [st EXCEPT !.versions =
              MapSet(@, workingCopy, getContentVersion(st, workingCopy) + 1)],
           workingCopy, mode)
    ELSE st

onDidChangeContent(st, workingCopy, isDirty, mode) ==
  LET contentVersionId == getContentVersion(st, workingCopy)
      s1 == [st EXCEPT !.versions = MapSet(@, workingCopy, contentVersionId + 1)]
  IN  IF isDirty THEN scheduleBackup(s1, workingCopy, mode) ELSE s1

----------------------------------------------------------------------------
(* The timer callback of a job, cut at its two awaits. *)

\* Mutant: the entry is deleted without the check of the cancellation token.
finishCallbackAlwaysDelete(st, j) ==
  [st EXCEPT !.jobs[j] = FreeJob, !.pending = MapDelete(@, st.jobs[j].wc)]

\* Lines 137-142, after the try block; the callback returns and the job is gone.
finishCallback(st, j) ==
  IF st.jobs[j].cancelled
    THEN [st EXCEPT !.jobs[j] = FreeJob]
    ELSE [st EXCEPT !.jobs[j] = FreeJob,
                    !.pending = MapDelete(@, st.jobs[j].wc)]

\* Mutant: the callback of a working copy that is not dirty returns at once.
timerCallbackReturnIfClean(st, j, isDirty) ==
  IF st.jobs[j].cancelled
    THEN [st EXCEPT !.jobs[j] = FreeJob]
    ELSE IF isDirty
      THEN [st EXCEPT !.jobs[j].pc = "capture",
                      !.jobs[j].capVersion = getContentVersion(st, st.jobs[j].wc)]
      ELSE [st EXCEPT !.jobs[j] = FreeJob]

\* Mutant: the disposable is cleared when the timer fires, before the backup.
timerCallbackDeleteEarly(st, j, isDirty) ==
  IF st.jobs[j].cancelled
    THEN [st EXCEPT !.jobs[j] = FreeJob]
    ELSE IF isDirty
      THEN [st EXCEPT !.jobs[j].pc = "capture",
                      !.jobs[j].capVersion = getContentVersion(st, st.jobs[j].wc),
                      !.pending = MapDelete(@, st.jobs[j].wc)]
      ELSE finishCallback(st, j)

\* Lines 113-122: from the timer firing to the call of workingCopy.backup().
timerCallback(st, j, isDirty) ==
  IF st.jobs[j].cancelled
    THEN [st EXCEPT !.jobs[j] = FreeJob]
    ELSE IF isDirty
      THEN [st EXCEPT !.jobs[j].pc = "capture",
                      !.jobs[j].capVersion = getContentVersion(st, st.jobs[j].wc)]
      ELSE finishCallback(st, j)

\* Mutant: no second check of isDirty() before the backup is stored.
afterCaptureNoDirtyCheck(st, j, isDirty, since) ==
  IF st.jobs[j].cancelled
    THEN [st EXCEPT !.jobs[j] = FreeJob]
    ELSE LET v == getContentVersion(st, st.jobs[j].wc)
         IN  [st EXCEPT !.jobs[j].pc = "store",
                        !.jobs[j].subVersion = v,
                        !.jobs[j].subSince = since,
                        !.calls = Append(@, [op |-> "backup", wc |-> st.jobs[j].wc,
                                             version |-> v, job |-> j])]

\* Mutant: the cancellation token is not looked at after the capture.
afterCaptureNoTokenCheck(st, j, isDirty, since) ==
  IF isDirty
    THEN LET v == getContentVersion(st, st.jobs[j].wc)
         IN  [st EXCEPT !.jobs[j].pc = "store",
                        !.jobs[j].subVersion = v,
                        !.jobs[j].subSince = since,
                        !.calls = Append(@, [op |-> "backup", wc |-> st.jobs[j].wc,
                                             version |-> v, job |-> j])]
    ELSE finishCallback(st, j)

\* Lines 123-130: workingCopy.backup() has returned a backup.
afterCapture(st, j, isDirty, since) ==
  IF st.jobs[j].cancelled
    THEN [st EXCEPT !.jobs[j] = FreeJob]
    ELSE IF isDirty
      THEN LET v == getContentVersion(st, st.jobs[j].wc)
           IN  [st EXCEPT !.jobs[j].pc = "store",
                          !.jobs[j].subVersion = v,
                          !.jobs[j].subSince = since,
                          !.calls = Append(@, [op |-> "backup", wc |-> st.jobs[j].wc,
                                               version |-> v, job |-> j])]
      ELSE finishCallback(st, j)

\* Mutant: no try/catch; the error leaves the callback before line 137.
catchErrorPropagates(st, j) == [st EXCEPT !.jobs[j] = FreeJob]

\* Lines 132-134: workingCopy.backup() or backupFileService.backup() has thrown.
catchError(st, j) == finishCallback(st, j)

\* Mutant: the callback returns after the store without clearing the disposable.
afterStoreKeepEntry(st, j) == [st EXCEPT !.jobs[j] = FreeJob]

\* backupFileService.backup() has returned.
afterStore(st, j) == finishCallback(st, j)

----------------------------------------------------------------------------
(* Init: the constructor *)

RECURSIVE FillInitialDirty(_, _, _)
\* dirtyWorkingCopies.forEach(workingCopy => this.onDidRegister(workingCopy))
FillInitialDirty(st, copies, mode) ==
  IF copies = {} THEN st
  ELSE LET w == CHOOSE x \in copies : TRUE
       IN  FillInitialDirty(onDidRegister(st, w, TRUE, mode), copies \ {w}, mode)

NoBurst == [k |-> 0, submits |-> 0]

\* The working copy is not in a plain run: registered dirty, dirty ever since,
\* at most one content change, before the timer fired, and no failure.
NoBasic == [on |-> FALSE, n |-> 0, submits |-> 0]
\* The plain run of a working copy starts when it is registered dirty.
StartBasic(isDirty) == IF isDirty THEN [on |-> TRUE, n |-> 0, submits |-> 0] ELSE NoBasic

\* No shutdown event in the last step.
NoVeto == [forwarded |-> FALSE, value |-> FALSE]

\* The constructor, with the auto save setting one of modes.
InitModes(copies, modes) ==
  /\ existing = copies
  /\ registered \in SUBSET copies
  /\ dirty \in [WorkingCopies -> BOOLEAN]
  /\ \A w \in WorkingCopies \ copies : ~dirty[w]
  /\ autoSaveMode \in modes
  /\ LET st == FillInitialDirty(
                 [versions |-> EmptyMap, pending |-> EmptyMap,
                  jobs |-> [j \in JobIds |-> FreeJob], calls |-> <<>>, ok |-> TRUE],
                 {w \in registered : dirty[w]}, autoSaveMode)
     IN  /\ st.ok
         /\ mapWorkingCopyToContentVersion = st.versions
         /\ pendingBackups = st.pending
         /\ jobs = st.jobs
         /\ calls = st.calls
  /\ lastBackup = [w \in WorkingCopies |-> "none"]
  /\ sinceChange = [w \in WorkingCopies |-> MaxDelay]
  /\ burst = [w \in WorkingCopies |-> NoBurst]
  /\ basic = [w \in WorkingCopies |-> StartBasic(w \in registered /\ dirty[w])]
  /\ veto = NoVeto

InitWith(copies) == InitModes(copies, ConfiguredModes)

----------------------------------------------------------------------------
(* The steps.  Each handler runs to completion in one step (one thread).   *)

\* The tracker's maps after a handler.
Apply(st) ==
  /\ st.ok
  /\ mapWorkingCopyToContentVersion' = st.versions
  /\ pendingBackups' = st.pending
  /\ jobs' = st.jobs
  /\ calls' = st.calls

\* lastBackup[w] is "stored" when a backupFileService.backup() call with the
\* current content version of w has returned, "failed" when the last attempt
\* for w threw; any event for w makes it "none" again.
NoBackup(w) == [lastBackup EXCEPT ![w] = "none"]

\* The working copy w becomes clean: its jobs suspended in capture saw it.
MarkWentClean(js, w) ==
  [j \in JobIds |->
     IF js[j].wc = w /\ js[j].pc = "capture"
       THEN [js[j] EXCEPT !.wentClean = TRUE]
       ELSE js[j]]

EndBurst(w) == [burst EXCEPT ![w] = NoBurst]

EndBasic(w) == [basic EXCEPT ![w] = NoBasic]

\* workingCopyService.onDidRegister
Register(w) ==
  /\ w \in existing \ registered
  /\ registered' = registered \cup {w}
  /\ Apply(onDidRegister(TrackerState, w, dirty[w], autoSaveMode))
  /\ lastBackup' = NoBackup(w)
  /\ burst' = EndBurst(w)
  /\ basic' = [basic EXCEPT ![w] = StartBasic(dirty[w])]
  /\ veto' = NoVeto
  /\ UNCHANGED <<existing, dirty, autoSaveMode, sinceChange>>

\* workingCopyService.onDidUnregister
Unregister(w) ==
  /\ w \in registered
  /\ registered' = registered \ {w}
  /\ Apply(onDidUnregister(TrackerState, w))
  /\ lastBackup' = NoBackup(w)
  /\ sinceChange' = [sinceChange EXCEPT ![w] = MaxDelay]
  /\ burst' = EndBurst(w)
  /\ basic' = EndBasic(w)
  /\ veto' = NoVeto
  /\ UNCHANGED <<existing, dirty, autoSaveMode>>

\* The dirty flag of a registered working copy changes: workingCopyService.onDidChangeDirty
ChangeDirty(w) ==
  /\ w \in registered
  /\ dirty' = [dirty EXCEPT ![w] = ~@]
  /\ LET st == onDidChangeDirty(TrackerState, w, ~dirty[w], autoSaveMode)
     IN  Apply(IF dirty[w] THEN [st EXCEPT !.jobs = MarkWentClean(@, w)] ELSE st)
  /\ lastBackup' = NoBackup(w)
  /\ burst' = EndBurst(w)
  /\ basic' = EndBasic(w)
  /\ veto' = NoVeto
  /\ UNCHANGED <<existing, registered, autoSaveMode, sinceChange>>

\* The dirty flag of a working copy the registry does not know changes: no event.
ChangeDirtyUnregistered(w) ==
  /\ w \in existing \ registered
  /\ dirty' = [dirty EXCEPT ![w] = ~@]
  /\ calls' = <<>>
  /\ veto' = NoVeto
  /\ UNCHANGED <<existing, registered, autoSaveMode, mapWorkingCopyToContentVersion,
                 pendingBackups, jobs, lastBackup, sinceChange, burst, basic>>

\* A registered working copy becomes clean and no event reaches the tracker.
SilentClean(w) ==
  /\ w \in registered
  /\ dirty[w]
  /\ dirty' = [dirty EXCEPT ![w] = FALSE]
  /\ jobs' = MarkWentClean(jobs, w)
  /\ calls' = <<>>
  /\ burst' = EndBurst(w)
  /\ basic' = EndBasic(w)
  /\ veto' = NoVeto
  /\ UNCHANGED <<existing, registered, autoSaveMode, mapWorkingCopyToContentVersion,
                 pendingBackups, lastBackup, sinceChange>>

\* The run of content changes w is in, after one more content change: a run
\* starts with the first content change of a dirty working copy and goes on
\* while each change comes less than the delay after the one before.
NextBurst(w) ==
  LET d == getBackupScheduleDelay(w, autoSaveMode)
  IN  IF ~dirty[w] THEN NoBurst
      ELSE IF burst[w].k = 0
        THEN IF w \notin DOMAIN mapWorkingCopyToContentVersion
               THEN [k |-> 1, submits |-> 0]
               ELSE NoBurst
        ELSE IF sinceChange[w] < d THEN [burst[w] EXCEPT !.k = @ + 1] ELSE NoBurst

\* The plain run of w after one more content change: it goes on with the first
\* content change that comes before the timer of the registration's job fired.
NextBasic(w) ==
  IF /\ basic[w].on /\ basic[w].n = 0
     /\ w \in DOMAIN pendingBackups
     /\ jobs[pendingBackups[w]].pc = "timer"
    THEN [basic[w] EXCEPT !.n = 1]
    ELSE NoBasic

\* workingCopyService.onDidChangeContent
ChangeContent(w) ==
  /\ w \in registered
  /\ getContentVersion(TrackerState, w) < MaxVersion
  /\ Apply(onDidChangeContent(TrackerState, w, dirty[w], autoSaveMode))
  /\ lastBackup' = NoBackup(w)
  /\ sinceChange' = [sinceChange EXCEPT ![w] = 0]
  /\ burst' = [burst EXCEPT ![w] = NextBurst(w)]
  /\ basic' = [basic EXCEPT ![w] = NextBasic(w)]
  /\ veto' = NoVeto
  /\ UNCHANGED <<existing, registered, dirty, autoSaveMode>>

\* The auto save setting changes.
ChangeAutoSaveMode(m) ==
  /\ m # autoSaveMode
  /\ autoSaveMode' = m
  /\ calls' = <<>>
  /\ burst' = [w \in WorkingCopies |-> NoBurst]
  /\ veto' = NoVeto
  /\ UNCHANGED <<existing, registered, dirty, mapWorkingCopyToContentVersion,
                 pendingBackups, jobs, lastBackup, sinceChange, basic>>

\* TickMs pass: every armed timer comes closer to firing.
Tick ==
  /\ \/ \E j \in JobIds : Armed(jobs[j]) /\ jobs[j].remaining > 0
     \/ \E w \in registered : sinceChange[w] < MaxDelay
  /\ jobs' = [j \in JobIds |->
                IF Armed(jobs[j])
                  THEN [jobs[j] EXCEPT !.remaining = Max(0, @ - TickMs)]
                  ELSE jobs[j]]
  /\ sinceChange' = [w \in WorkingCopies |-> Min(MaxDelay, sinceChange[w] + TickMs)]
  /\ calls' = <<>>
  /\ veto' = NoVeto
  /\ UNCHANGED <<existing, registered, dirty, autoSaveMode,
                 mapWorkingCopyToContentVersion, pendingBackups, lastBackup, burst, basic>>

\* The timer of job j fires: the callback runs up to its first await.
TimerFire(j) ==
  /\ Armed(jobs[j])
  /\ jobs[j].remaining = 0
  /\ Apply(timerCallback(TrackerState, j, dirty[jobs[j].wc]))
  /\ veto' = NoVeto
  /\ UNCHANGED <<existing, registered, dirty, autoSaveMode, lastBackup, sinceChange, burst,
                 basic>>

\* The run of content changes of w after a step of one of its jobs that made
\* the calls cs.
BurstAfterCalls(w, cs) ==
  IF burst[w].k > 0 /\ cs # <<>>
    THEN [burst EXCEPT ![w].submits = Min(2, @ + Len(cs))]
    ELSE burst

\* The plain run of w after a step of one of its jobs that made the calls cs.
BasicAfterCalls(w, cs) ==
  IF basic[w].on /\ cs # <<>>
    THEN [basic EXCEPT ![w].submits = Min(2, @ + Len(cs))]
    ELSE basic

\* workingCopy.backup() of job j returns.
CaptureReturn(j) ==
  /\ jobs[j].pc = "capture"
  /\ LET st == afterCapture(TrackerState, j, dirty[jobs[j].wc], sinceChange[jobs[j].wc])
     IN  /\ Apply(st)
         /\ burst' = BurstAfterCalls(jobs[j].wc, st.calls)
         /\ basic' = BasicAfterCalls(jobs[j].wc, st.calls)
  /\ veto' = NoVeto
  /\ UNCHANGED <<existing, registered, dirty, autoSaveMode, lastBackup, sinceChange>>

\* A job of w that was not cancelled failed: the run of content changes ends.
BurstAfterThrow(j) ==
  IF jobs[j].cancelled THEN burst ELSE EndBurst(jobs[j].wc)

\* A job of w that was not cancelled failed: the plain run ends.
BasicAfterThrow(j) ==
  IF jobs[j].cancelled THEN basic ELSE EndBasic(jobs[j].wc)

BackupAfterThrow(j) ==
  IF jobs[j].cancelled THEN lastBackup ELSE [lastBackup EXCEPT ![jobs[j].wc] = "failed"]

\* workingCopy.backup() of job j throws.
CaptureThrow(j) ==
  /\ jobs[j].pc = "capture"
  /\ Apply(catchError(TrackerState, j))
  /\ burst' = BurstAfterThrow(j)
  /\ lastBackup' = BackupAfterThrow(j)
  /\ basic' = BasicAfterThrow(j)
  /\ veto' = NoVeto
  /\ UNCHANGED <<existing, registered, dirty, autoSaveMode, sinceChange>>

\* backupFileService.backup() of job j returns: the backup is stored.
StoreReturn(j) ==
  /\ jobs[j].pc = "store"
  /\ Apply(afterStore(TrackerState, j))
  /\ lastBackup' =
       IF /\ jobs[j].wc \in registered
          /\ jobs[j].subVersion = getContentVersion(TrackerState, jobs[j].wc)
         THEN [lastBackup EXCEPT ![jobs[j].wc] = "stored"]
         ELSE lastBackup
  /\ veto' = NoVeto
  /\ UNCHANGED <<existing, registered, dirty, autoSaveMode, sinceChange, burst, basic>>

\* backupFileService.backup() of job j throws.
StoreThrow(j) ==
  /\ jobs[j].pc = "store"
  /\ Apply(catchError(TrackerState, j))
  /\ burst' = BurstAfterThrow(j)
  /\ lastBackup' = BackupAfterThrow(j)
  /\ basic' = BasicAfterThrow(j)
  /\ veto' = NoVeto
  /\ UNCHANGED <<existing, registered, dirty, autoSaveMode, sinceChange>>

\* lifecycleService.onBeforeShutdown: the tracker forwards what the abstract
\* onBeforeShutdown(reason) of its subclass returns as the veto of the event.
BeforeShutdown(reason, value) ==
  /\ veto' = [forwarded |-> TRUE, value |-> value]
  /\ calls' = <<>>
  /\ UNCHANGED <<existing, registered, dirty, autoSaveMode, mapWorkingCopyToContentVersion,
                 pendingBackups, jobs, lastBackup, sinceChange, burst, basic>>

Events ==
  \/ \E w \in WorkingCopies : Register(w)
  \/ \E w \in WorkingCopies : Unregister(w)
  \/ \E w \in WorkingCopies : ChangeDirty(w)
  \/ \E w \in WorkingCopies : ChangeDirtyUnregistered(w)
  \/ \E w \in WorkingCopies : ChangeContent(w)
  \/ \E m \in ConfiguredModes : ChangeAutoSaveMode(m)

JobSteps ==
  \/ Tick
  \/ \E j \in JobIds : TimerFire(j)
  \/ \E j \in JobIds : CaptureReturn(j)
  \/ \E j \in JobIds : CaptureThrow(j)
  \/ \E j \in JobIds : StoreReturn(j)
  \/ \E j \in JobIds : StoreThrow(j)

\* Every change of a dirty flag of a registered working copy reaches the tracker.
Next == Events \/ JobSteps

\* One working copy, with or without the Untitled capability.
Init == \E w \in WorkingCopies : InitWith({w})

Spec == Init /\ [][Next]_vars

\* A working copy may also become clean without an event.
NextLossy == Next \/ \E w \in WorkingCopies : SilentClean(w)

SpecLossy == Init /\ [][NextLossy]_vars

\* The event loop goes on: while a timer is set or a call is outstanding, time
\* passes, a timer that is due fires, or an awaited call returns or throws.
Fairness == WF_vars(JobSteps)

\* The events of the working copies under one auto save mode, then the jobs.
NextLive ==
  \/ \E w \in WorkingCopies : Register(w)
  \/ \E w \in WorkingCopies : Unregister(w)
  \/ \E w \in WorkingCopies : ChangeDirty(w)
  \/ \E w \in WorkingCopies : SilentClean(w)
  \/ \E w \in WorkingCopies : ChangeContent(w)
  \/ JobSteps

SpecLive == Init /\ [][NextLive]_vars /\ Fairness

\* The auto save setting takes every mode.
InitAllModes == \E w \in WorkingCopies : InitModes({w}, AutoSaveModes)

\* The events that arm and clear timers, under every mode, and the time that
\* passes until a timer is due.
NextSchedule ==
  \/ \E w \in WorkingCopies : Register(w)
  \/ \E w \in WorkingCopies : Unregister(w)
  \/ \E w \in WorkingCopies : ChangeDirty(w)
  \/ \E w \in WorkingCopies : ChangeContent(w)
  \/ \E m \in AutoSaveModes : ChangeAutoSaveMode(m)
  \/ Tick

SpecSchedule == InitAllModes /\ [][NextSchedule]_vars

\* Both working copies, under the mode in which their delays differ.
InitPair == InitModes(WorkingCopies, {"AFTER_SHORT_DELAY"})

\* The events of the working copies, the shutdown event and the jobs.
NextPair ==
  \/ \E w \in WorkingCopies : Register(w)
  \/ \E w \in WorkingCopies : Unregister(w)
  \/ \E w \in WorkingCopies : ChangeDirty(w)
  \/ \E w \in WorkingCopies : ChangeContent(w)
  \/ \E reason \in ShutdownReasons : \E value \in BOOLEAN : BeforeShutdown(reason, value)
  \/ JobSteps

SpecPair == InitPair /\ [][NextPair]_vars

----------------------------------------------------------------------------
(* The properties *)

\* The content version of w, now and after the step.
Version(w) == getContentVersion(TrackerState, w)
VersionAfter(w) == getContentVersion([versions |-> mapWorkingCopyToContentVersion'], w)

\* The jobs of w in js that can still act and whose token is not signaled.
NonCancelledJobs(js, w) ==
  {j \in JobIds : js[j].wc = w /\ Alive(js[j]) /\ ~js[j].cancelled}

\* The jobs of w suspended in workingCopy.backup() or backupFileService.backup().
InFlightJobs(w) == {j \in JobIds : jobs[j].wc = w /\ InFlight(jobs[j])}

IsPending(j) ==
  jobs[j].wc \in DOMAIN pendingBackups /\ pendingBackups[jobs[j].wc] = j

DiscardCall(w) == [op |-> "discardBackup", wc |-> w, version |-> None, job |-> 0]

\* C1: every working copy has at most one job whose token is not signaled
\* (timer armed, capture or store outstanding), it is the job pendingBackups
\* records for it, and every other job has its token signaled and its timer
\* cleared.
C1_OneJobPerWorkingCopy ==
  /\ \A w \in WorkingCopies :
       NonCancelledJobs(jobs, w) =
         (IF w \in DOMAIN pendingBackups THEN {pendingBackups[w]} ELSE {})
  /\ \A j \in JobIds :
       (jobs[j].pc # "free" /\ ~IsPending(j)) =>
         (jobs[j].cancelled /\ jobs[j].timerCleared)

\* A superseded job is still suspended while its successor is pending.
C1_Witness ==
  \E j \in JobIds :
    /\ InFlight(jobs[j]) /\ jobs[j].cancelled /\ jobs[j].timerCleared
    /\ jobs[j].wc \in DOMAIN pendingBackups
    /\ pendingBackups[jobs[j].wc] # j

\* C2: a job that submits to backupFileService.backup() submits the content
\* version read at that moment, and it is the version that was current when its
\* workingCopy.backup() call started.
C2_SubmittedVersionIsCapturedVersion ==
  /\ \A j \in JobIds :
       jobs[j].pc = "store" => jobs[j].subVersion = jobs[j].capVersion
  /\ \A i \in DOMAIN calls :
       calls[i].op = "backup" =>
         /\ calls[i].version = Version(calls[i].wc)
         /\ calls[i].version = jobs[calls[i].job].capVersion

\* A job has just submitted a backup of a content version that was changed before.
C2_Witness ==
  \E j \in JobIds :
    /\ jobs[j].pc = "store" /\ jobs[j].subVersion >= 1
    /\ calls = <<[op |-> "backup", wc |-> jobs[j].wc,
                  version |-> jobs[j].subVersion, job |-> j]>>

\* C3 as claimed: no two capture or store calls of one working copy are
\* outstanding at the same time.
C3_NoTwoInFlight ==
  \A w \in WorkingCopies : Cardinality(InFlightJobs(w)) <= 1

\* C3 as amended: no two capture or store calls of one working copy whose
\* cancellation token is not signaled are outstanding at the same time.
C3_NoTwoNonCancelledInFlight ==
  \A w \in WorkingCopies :
    Cardinality({j \in InFlightJobs(w) : ~jobs[j].cancelled}) <= 1

\* Two calls of one working copy are outstanding, one of a cancelled job.
C3_Witness ==
  \E w \in WorkingCopies :
    /\ Cardinality(InFlightJobs(w)) = 2
    /\ \E j \in InFlightJobs(w) : ~jobs[j].cancelled

C5_VersionNeverDecreases ==
  [][\A w \in WorkingCopies : VersionAfter(w) >= Version(w)]_vars

\* C5 as amended: a content change event increases the content version by
\* exactly 1, an unregistration resets it to 0, and nothing else changes it.
C5_VersionStepsByOne ==
  [][\A w \in WorkingCopies :
       /\ ChangeContent(w) => VersionAfter(w) = Version(w) + 1
       /\ (w \in registered /\ w \notin registered') => VersionAfter(w) = 0
       /\ VersionAfter(w) # Version(w) =>
            \/ ChangeContent(w)
            \/ w \in registered /\ w \notin registered']_vars

\* A working copy has changed MaxVersion times since its registration.
C5_Witness ==
  \E w \in registered : Version(w) = MaxVersion /\ ~dirty[w]

\* C6: in a run of k content changes of a dirty working copy, each less than
\* the delay after the one before, at most one backup is submitted; it is
\* submitted no earlier than the delay after the last change, with version k;
\* and when the run's job has finished, exactly one was submitted.
C6_DebounceCollapses ==
  \A w \in WorkingCopies :
    burst[w].k >= 1 =>
      /\ burst[w].submits <= 1
      /\ \A j \in JobIds :
           (jobs[j].wc = w /\ jobs[j].pc = "store" /\ ~jobs[j].cancelled) =>
             /\ jobs[j].subVersion = burst[w].k
             /\ jobs[j].subSince >= getBackupScheduleDelay(w, autoSaveMode)
      /\ w \notin DOMAIN pendingBackups => burst[w].submits = 1

\* A run of two content changes has ended with its one backup stored.
C6_Witness ==
  \E w \in WorkingCopies :
    /\ burst[w].k = 2 /\ burst[w].submits = 1
    /\ w \notin DOMAIN pendingBackups
    /\ lastBackup[w] = "stored"

\* C7: a job cancelled before its timer fired never calls workingCopy.backup()
\* nor backupFileService.backup(): its timer is not armed and it stays as it was.
C7_CancelledBeforeFireNeverRuns ==
  /\ \A j \in JobIds :
       jobs[j].cancelAt = "timer" =>
         /\ jobs[j].pc = "timer" /\ ~Armed(jobs[j])
         /\ jobs[j].capVersion = None /\ jobs[j].subVersion = None
  /\ \A i \in DOMAIN calls :
       calls[i].op = "backup" => jobs[calls[i].job].cancelAt # "timer"

\* A job was superseded before its timer fired, and its successor is pending.
C7_Witness ==
  \E j \in JobIds :
    /\ jobs[j].cancelAt = "timer" /\ Cleared(jobs[j])
    /\ jobs[j].wc \in DOMAIN pendingBackups
    /\ pendingBackups[jobs[j].wc] # j

\* C8: a job whose working copy became clean while it was suspended in
\* workingCopy.backup() submits nothing, with or without a dirty event.
C8_CleanDuringCaptureStoresNothing ==
  /\ \A j \in JobIds :
       jobs[j].wentClean => (jobs[j].pc = "capture" /\ jobs[j].subVersion = None)
  /\ \A i \in DOMAIN calls :
       calls[i].op = "backup" => ~jobs[calls[i].job].wentClean

\* The working copy became clean during a capture and the tracker saw no event.
C8_Witness ==
  \E j \in JobIds :
    /\ jobs[j].wentClean /\ jobs[j].pc = "capture"
    /\ ~jobs[j].cancelled /\ IsPending(j)
    /\ ~dirty[jobs[j].wc]

\* C9: an unregistration leaves no content version and no pendingBackups
\* entry of the working copy, signals the cancellation of the pending job
\* and makes exactly one discardBackup call.
C9_UnregisterForgets ==
  [][\A w \in WorkingCopies :
       (w \in registered /\ w \notin registered') =>
         /\ w \notin DOMAIN mapWorkingCopyToContentVersion'
         /\ w \notin DOMAIN pendingBackups'
         /\ w \in DOMAIN pendingBackups =>
              /\ jobs'[pendingBackups[w]].cancelled
              /\ jobs'[pendingBackups[w]].timerCleared
         /\ NonCancelledJobs(jobs', w) = {}
         /\ calls' = <<DiscardCall(w)>>]_vars

\* A dirty working copy with a content version and a job in flight was unregistered.
C9_Witness ==
  \E w \in existing \ registered :
    /\ dirty[w]
    /\ calls = <<DiscardCall(w)>>
    /\ \E j \in JobIds : jobs[j].wc = w /\ InFlight(jobs[j]) /\ jobs[j].cancelled
    /\ w \notin DOMAIN mapWorkingCopyToContentVersion
    /\ w \notin DOMAIN pendingBackups

\* C10: a content change of a clean working copy increments its content
\* version and leaves pendingBackups and the jobs as they are; a content change
\* of a dirty one increments it and leaves exactly one fresh pending job, the
\* job that was pending before being cancelled.
C10_ContentChangeEffect ==
  [][\A w \in WorkingCopies :
       ChangeContent(w) =>
         /\ VersionAfter(w) = Version(w) + 1
         /\ ~dirty[w] => (pendingBackups' = pendingBackups /\ jobs' = jobs)
         /\ dirty[w] =>
              /\ w \in DOMAIN pendingBackups'
              /\ jobs'[pendingBackups'[w]] =
                   NewJob(w, getBackupScheduleDelay(w, autoSaveMode))
              /\ NonCancelledJobs(jobs', w) = {pendingBackups'[w]}
              /\ w \in DOMAIN pendingBackups =>
                   \/ jobs'[pendingBackups[w]].cancelled
                   \/ /\ jobs[pendingBackups[w]].pc = "timer"
                      /\ pendingBackups'[w] = pendingBackups[w]]_vars

\* A content change of a dirty working copy has replaced a job in flight.
C10_Witness ==
  \E w \in registered :
    /\ dirty[w] /\ sinceChange[w] = 0 /\ Version(w) >= 1
    /\ w \in DOMAIN pendingBackups
    /\ jobs[pendingBackups[w]] = NewJob(w, getBackupScheduleDelay(w, autoSaveMode))
    /\ \E j \in InFlightJobs(w) : jobs[j].cancelled

\* C11: a dirty event of a working copy that is clean cancels and removes its
\* pending job (a job whose timer had not fired never runs), leaves no job that
\* can submit, and makes exactly one discardBackup call; a dirty event of a
\* working copy that is dirty leaves exactly one fresh pending job, the one
\* that was pending before being cancelled, and makes no call.
C11_DirtyEventEffect ==
  [][\A w \in WorkingCopies :
       ChangeDirty(w) =>
         /\ dirty[w] =>
              /\ w \notin DOMAIN pendingBackups'
              /\ NonCancelledJobs(jobs', w) = {}
              /\ w \in DOMAIN pendingBackups =>
                   /\ jobs'[pendingBackups[w]].cancelled
                   /\ jobs'[pendingBackups[w]].timerCleared
                   /\ jobs[pendingBackups[w]].pc = "timer" =>
                        /\ Cleared(jobs'[pendingBackups[w]])
                        /\ jobs'[pendingBackups[w]].subVersion = None
              /\ calls' = <<DiscardCall(w)>>
         /\ ~dirty[w] =>
              /\ w \in DOMAIN pendingBackups'
              /\ jobs'[pendingBackups'[w]] =
                   NewJob(w, getBackupScheduleDelay(w, autoSaveMode))
              /\ NonCancelledJobs(jobs', w) = {pendingBackups'[w]}
              /\ w \in DOMAIN pendingBackups =>
                   \/ jobs'[pendingBackups[w]].cancelled
                   \/ /\ jobs[pendingBackups[w]].pc = "timer"
                      /\ pendingBackups'[w] = pendingBackups[w]
              /\ calls' = <<>>]_vars

\* A working copy became clean before the timer of its job fired: the job is
\* cancelled and removed and the one call of the step is the discard.
C11_Witness ==
  \E w \in registered :
    /\ ~dirty[w]
    /\ calls = <<DiscardCall(w)>>
    /\ w \notin DOMAIN pendingBackups
    /\ \E j \in JobIds :
         jobs[j].wc = w /\ jobs[j].cancelAt = "timer" /\ Cleared(jobs[j])

\* C12: when workingCopy.backup() or backupFileService.backup() of a job that
\* is not cancelled throws, the step ends like any other (the error reaches no
\* handler): it removes the entry of the working copy, frees the job and changes
\* nothing else; the working copy then has no entry and no job that can act
\* until one of its register, dirty or content events, the only steps that
\* create a job.
C12_FailureIsAbsorbedWithoutRetry ==
  /\ [](\A w \in WorkingCopies :
          lastBackup[w] = "failed" =>
            (w \notin DOMAIN pendingBackups /\ NonCancelledJobs(jobs, w) = {}))
  /\ [][\A j \in JobIds :
          ((CaptureThrow(j) \/ StoreThrow(j)) /\ ~jobs[j].cancelled) =>
            /\ pendingBackups' = MapDelete(pendingBackups, jobs[j].wc)
            /\ jobs' = [jobs EXCEPT ![j] = FreeJob]
            /\ mapWorkingCopyToContentVersion' = mapWorkingCopyToContentVersion
            /\ calls' = <<>>
            /\ lastBackup'[jobs[j].wc] = "failed"]_vars
  /\ [][\A w \in WorkingCopies :
          (NonCancelledJobs(jobs', w) \ NonCancelledJobs(jobs, w) # {}) =>
            (Register(w) \/ ChangeDirty(w) \/ ChangeContent(w))]_vars

\* The backup of a dirty working copy has failed: nothing is pending and no
\* job is left.
C12_Witness ==
  \E w \in registered :
    /\ dirty[w] /\ lastBackup[w] = "failed"
    /\ w \notin DOMAIN pendingBackups
    /\ \A j \in JobIds : jobs[j].pc = "free"

\* C13: while a working copy registered dirty has stayed dirty, with n = 0 or 1
\* content changes, all before the timer fired, no other event and no failure,
\* at most one backup is submitted for it, with version n; the entry is
\* pending until the store has returned, and once it is gone exactly one
\* backup was submitted and it is stored.
C13_BasicScheduleFire ==
  /\ \A w \in WorkingCopies :
       basic[w].on =>
         /\ w \in registered /\ dirty[w]
         /\ Version(w) = basic[w].n
         /\ basic[w].submits <= 1
         /\ \A j \in NonCancelledJobs(jobs, w) :
              jobs[j].pc = "store" => jobs[j].subVersion = basic[w].n
         /\ w \in DOMAIN pendingBackups =>
              /\ Alive(jobs[pendingBackups[w]])
              /\ (basic[w].submits = 1) = (jobs[pendingBackups[w]].pc = "store")
         /\ w \notin DOMAIN pendingBackups =>
              /\ basic[w].submits = 1
              /\ lastBackup[w] = "stored"
              /\ NonCancelledJobs(jobs, w) = {}
  /\ \A i \in DOMAIN calls :
       (calls[i].op = "backup" /\ basic[calls[i].wc].on) =>
         calls[i].version = basic[calls[i].wc].n

\* A working copy registered dirty changed once before its timer fired; its
\* one backup, of version 1, is stored and nothing is pending.
C13_Witness ==
  \E w \in registered :
    /\ basic[w].on /\ basic[w].n = 1 /\ basic[w].submits = 1
    /\ w \notin DOMAIN pendingBackups
    /\ lastBackup[w] = "stored"

\* C14: getBackupScheduleDelay is the delay of OFF for an untitled working copy
\* whatever the mode, else the delay of the mode; the delay of
\* AFTER_SHORT_DELAY is greater than that of every other mode and the others
\* are equal; and every timer an event arms is armed with that delay for the
\* auto save mode of the moment.
C14_DelayPolicy ==
  /\ \A w \in WorkingCopies : \A m \in AutoSaveModes :
       getBackupScheduleDelay(w, m) =
         (IF w \in UntitledCopies THEN BACKUP_SCHEDULE_DELAYS("OFF")
                                  ELSE BACKUP_SCHEDULE_DELAYS(m))
  /\ \A m \in AutoSaveModes \ {"AFTER_SHORT_DELAY"} :
       /\ BACKUP_SCHEDULE_DELAYS("AFTER_SHORT_DELAY") > BACKUP_SCHEDULE_DELAYS(m)
       /\ BACKUP_SCHEDULE_DELAYS(m) = BACKUP_SCHEDULE_DELAYS("OFF")
  /\ [][\A w \in WorkingCopies :
          ((Register(w) \/ ChangeDirty(w) \/ ChangeContent(w))
             /\ w \in DOMAIN pendingBackups') =>
            /\ Armed(jobs'[pendingBackups'[w]])
            /\ jobs'[pendingBackups'[w]].remaining =
                 (IF w \in UntitledCopies
                    THEN BACKUP_SCHEDULE_DELAYS("OFF")
                    ELSE BACKUP_SCHEDULE_DELAYS(autoSaveMode))
            /\ (w \notin UntitledCopies /\ autoSaveMode = "AFTER_SHORT_DELAY") =>
                 \A m \in AutoSaveModes \ {"AFTER_SHORT_DELAY"} :
                   jobs'[pendingBackups'[w]].remaining > BACKUP_SCHEDULE_DELAYS(m)]_vars

\* An untitled working copy changed under AFTER_SHORT_DELAY: its timer was just
\* armed with the delay of OFF.
C14_Witness ==
  \E w \in UntitledCopies :
    /\ autoSaveMode = "AFTER_SHORT_DELAY"
    /\ burst[w].k = 1 /\ sinceChange[w] = 0
    /\ w \in DOMAIN pendingBackups
    /\ Armed(jobs[pendingBackups[w]])
    /\ jobs[pendingBackups[w]].remaining = BACKUP_SCHEDULE_DELAYS("OFF")
    /\ jobs[pendingBackups[w]].remaining < BACKUP_SCHEDULE_DELAYS(autoSaveMode)

\* C15: after construction the tracker has a fresh pending job for every
\* working copy the registry reports dirty, no entry for any other, no content
\* version and no call made; a register event of a dirty working copy leaves
\* exactly one fresh pending job for it and makes no call; a register event of
\* a clean one changes neither map, no job, and makes no call.
C15_RegistrationAndBackfill ==
  /\ \A w \in WorkingCopies :
       /\ (w \in registered /\ dirty[w]) =>
            /\ w \in DOMAIN pendingBackups
            /\ jobs[pendingBackups[w]] =
                 NewJob(w, getBackupScheduleDelay(w, autoSaveMode))
       /\ ~(w \in registered /\ dirty[w]) => w \notin DOMAIN pendingBackups
  /\ mapWorkingCopyToContentVersion = EmptyMap
  /\ calls = <<>>
  /\ [][\A w \in WorkingCopies :
          Register(w) =>
            /\ dirty[w] =>
                 /\ w \in DOMAIN pendingBackups'
                 /\ jobs'[pendingBackups'[w]] =
                      NewJob(w, getBackupScheduleDelay(w, autoSaveMode))
                 /\ NonCancelledJobs(jobs', w) = {pendingBackups'[w]}
            /\ ~dirty[w] =>
                 /\ pendingBackups' = pendingBackups
                 /\ jobs' = jobs
            /\ (w \in DOMAIN pendingBackups') = dirty[w]
            /\ mapWorkingCopyToContentVersion' = mapWorkingCopyToContentVersion
            /\ calls' = <<>>]_vars

\* A dirty working copy was unregistered during a capture and registered
\* again: it has a fresh pending job next to the cancelled one.
C15_Witness ==
  \E w \in registered :
    /\ dirty[w] /\ basic[w].on /\ basic[w].submits = 0
    /\ w \notin DOMAIN mapWorkingCopyToContentVersion
    /\ w \in DOMAIN pendingBackups
    /\ jobs[pendingBackups[w]] = NewJob(w, getBackupScheduleDelay(w, autoSaveMode))
    /\ \E j \in InFlightJobs(w) : jobs[j].cancelled

\* C16: once no event arrives any more (from some point on every step is a
\* step of a job), pendingBackups becomes empty and stays empty; and a timer
\* that fires for a working copy that is not dirty makes no capture and no
\* store call and removes the entry.
C16_PendingEventuallyResolved ==
  /\ (<>[][JobSteps]_vars) => <>[](pendingBackups = EmptyMap)
  /\ [][\A j \in JobIds :
          (TimerFire(j) /\ ~jobs[j].cancelled /\ ~dirty[jobs[j].wc]) =>
            /\ jobs'[j] = FreeJob
            /\ jobs[j].wc \notin DOMAIN pendingBackups'
            /\ calls' = <<>>]_vars

\* The timer of a pending job is due and its working copy is not dirty any more.
C16_Witness ==
  \E j \in JobIds :
    /\ IsPending(j) /\ Armed(jobs[j]) /\ jobs[j].remaining = 0
    /\ ~dirty[jobs[j].wc]

\* C17: when the call a cancelled job is suspended in returns or throws, the
\* callback only ends: it makes no call, and pendingBackups, the content
\* versions and every other job stay as they are, so the entry of a newer job
\* of the same working copy stays.
C17_CancelledResumeHasNoEffect ==
  [][\A j \in JobIds :
       ((CaptureReturn(j) \/ CaptureThrow(j) \/ StoreReturn(j) \/ StoreThrow(j))
          /\ jobs[j].cancelled) =>
         /\ calls' = <<>>
         /\ pendingBackups' = pendingBackups
         /\ mapWorkingCopyToContentVersion' = mapWorkingCopyToContentVersion
         /\ jobs' = [jobs EXCEPT ![j] = FreeJob]]_vars

\* A superseded job has finished late: its slot, taken before the slot of the
\* newer job of the working copy, is free again and the newer job, scheduled
\* while it was suspended, is still pending.
C17_Witness ==
  \E w \in registered :
    /\ dirty[w] /\ existing = {w}
    /\ w \in DOMAIN pendingBackups
    /\ Alive(jobs[pendingBackups[w]]) /\ ~jobs[pendingBackups[w]].cancelled
    /\ \E i \in JobIds : i < pendingBackups[w] /\ jobs[i].pc = "free"

\* C18: a job whose token is not signaled and whose callback has not returned
\* (timer set, capture or store outstanding) is the entry of its working copy
\* in pendingBackups; and an entry goes only in a step that cancels its job or
\* in which the callback of its job returns.
C18_InFlightStaysPending ==
  /\ [](\A j \in JobIds : (Alive(jobs[j]) /\ ~jobs[j].cancelled) => IsPending(j))
  /\ [][\A w \in DOMAIN pendingBackups :
          (w \notin DOMAIN pendingBackups' \/ pendingBackups'[w] # pendingBackups[w]) =>
            \/ jobs'[pendingBackups[w]].cancelled
            \/ /\ ~InFlight(jobs'[pendingBackups[w]])
               /\ \/ TimerFire(pendingBackups[w])
                  \/ CaptureReturn(pendingBackups[w])
                  \/ CaptureThrow(pendingBackups[w])
                  \/ StoreReturn(pendingBackups[w])
                  \/ StoreThrow(pendingBackups[w])]_vars

\* The capture of a job that is not cancelled is outstanding and the job is
\* the entry of its working copy.
C18_Witness ==
  \E j \in JobIds :
    /\ jobs[j].pc = "capture" /\ ~jobs[j].cancelled
    /\ IsPending(j)
    /\ dirty[jobs[j].wc]

\* C19: a backupFileService.backup() call is made only by the job that is the
\* entry of its working copy, with its token not signaled, for a working copy
\* that is dirty; a step that makes a discardBackup call for a working copy
\* leaves it without entry and without a job that can submit, and an entry
\* appears again only with a register, dirty or content event of that
\* working copy.
C19_SubmitOnlyDirtyPendingNotCancelled ==
  /\ [](\A i \in DOMAIN calls :
          calls[i].op = "backup" =>
            /\ dirty[calls[i].wc]
            /\ calls[i].wc \in registered
            /\ jobs[calls[i].job].wc = calls[i].wc
            /\ jobs[calls[i].job].pc = "store"
            /\ ~jobs[calls[i].job].cancelled
            /\ IsPending(calls[i].job))
  /\ [][\A j \in JobIds :
          (CaptureReturn(j) /\ calls' # <<>>) =>
            (dirty[jobs[j].wc] /\ ~jobs[j].cancelled /\ IsPending(j))]_vars
  /\ [][\A w \in WorkingCopies :
          (\E i \in DOMAIN calls' : calls'[i] = DiscardCall(w)) =>
            /\ w \notin DOMAIN pendingBackups'
            /\ NonCancelledJobs(jobs', w) = {}
            /\ \A i \in DOMAIN calls' : calls'[i].op # "backup"]_vars
  /\ [][\A w \in WorkingCopies :
          (w \notin DOMAIN pendingBackups /\ w \in DOMAIN pendingBackups') =>
            (Register(w) \/ ChangeDirty(w) \/ ChangeContent(w))]_vars

\* A discard was requested for a working copy that became clean while the
\* capture of its job was outstanding: the job is cancelled and is no entry.
C19_Witness ==
  \E j \in JobIds :
    /\ jobs[j].pc = "capture" /\ jobs[j].cancelAt = "capture" /\ jobs[j].cancelled
    /\ ~dirty[jobs[j].wc]
    /\ jobs[j].wc \notin DOMAIN pendingBackups
    /\ calls = <<DiscardCall(jobs[j].wc)>>

\* The step leaves the content version of w, its entry in pendingBackups and
\* the job of that entry as they are.
Untouched(w) ==
  /\ (w \in DOMAIN mapWorkingCopyToContentVersion') =
       (w \in DOMAIN mapWorkingCopyToContentVersion)
  /\ VersionAfter(w) = Version(w)
  /\ (w \in DOMAIN pendingBackups') = (w \in DOMAIN pendingBackups)
  /\ w \in DOMAIN pendingBackups =>
       /\ pendingBackups'[w] = pendingBackups[w]
       /\ jobs'[pendingBackups[w]] = jobs[pendingBackups[w]]

\* C20: a register, unregister, dirty or content event of a working copy, and
\* a step of one of its jobs (timer fired, capture or store returned or threw),
\* leave the content version and the pending job of every other working copy
\* as they are (a step that does not leave them is none of these); a shutdown
\* event leaves both maps and every job as they are
\* and makes no call: it only forwards a veto.
C20_WorkingCopiesAreIndependent ==
  /\ [][\A other \in WorkingCopies :
          ~Untouched(other) =>
            /\ \A w \in WorkingCopies \ {other} :
                 ~(Register(w) \/ Unregister(w) \/ ChangeDirty(w) \/ ChangeContent(w))
            /\ \A j \in JobIds :
                 jobs[j].wc # other =>
                   ~(TimerFire(j) \/ CaptureReturn(j) \/ CaptureThrow(j)
                       \/ StoreReturn(j) \/ StoreThrow(j))]_vars
  /\ [][veto'.forwarded =>
          /\ mapWorkingCopyToContentVersion' = mapWorkingCopyToContentVersion
          /\ pendingBackups' = pendingBackups
          /\ jobs' = jobs
          /\ calls' = <<>>]_vars

\* A shutdown event was vetoed while one working copy had its backup being
\* stored and the other was waiting for its timer, both with a content version.
C20_Witness ==
  /\ veto.forwarded /\ veto.value
  /\ \E w \in WorkingCopies : \E other \in WorkingCopies \ {w} :
       /\ {w, other} \subseteq DOMAIN pendingBackups
       /\ jobs[pendingBackups[w]].pc = "store"
       /\ Armed(jobs[pendingBackups[other]])
       /\ Version(w) >= 1 /\ Version(other) >= 1

====
